---- MODULE Spec2Model ----
(***************************************************************************)
(* A model of finanzen_fundamentals/stocks.py: the ISIN extractor, the URL *)
(* builder, the site check, the table parsers with their numeric           *)
(* normalisation, and the page-level orchestrators.                        *)
(*                                                                         *)
(* Python strings that the code inspects character by character (stock     *)
(* arguments, og:title contents, table cells) are sequences of             *)
(* one-character strings.  Strings the code only compares or concatenates  *)
(* as a whole (URL prefixes, column labels, row names) are single tokens.  *)
(* Python's None is the record None, a present value v is Some(v).         *)
(***************************************************************************)
EXTENDS Integers, Sequences, FiniteSets, TLC

VARIABLES
    pc,      \* where the call in progress stands: idle, check_site, extract, done
    fn,      \* the function called
    arg,     \* its stock argument, as passed
    stock,   \* the local stock (lower-cased where the function does so)
    url,     \* the URL fetched
    isin,    \* the local isin
    soup,    \* the parsed page the fetch returned
    parsed,  \* the sections the call has tried to locate so far, in order
    result,  \* what the call returned or raised
    heap,    \* the list objects bound to the results=[] defaults
    limit,   \* the limit argument of search_stock_lxml
    calls    \* how many calls have finished before this one, up to MaxCalls

vars == <<pc, fn, arg, stock, url, isin, soup, parsed, result, heap, limit, calls>>

(***************************************************************************)
(* Bounds of the model.                                                    *)
(***************************************************************************)
MaxPad == 1
MaxCellLen == 7
MaxBoxes == 2
MaxCols == 2
MaxCells == 2
MaxLxmlRows == 2
MaxCalls == 1

(***************************************************************************)
(* Python values.                                                          *)
(***************************************************************************)
None == [some |-> FALSE]
Some(v) == [some |-> TRUE, v |-> v]

Returned(v) == [kind |-> "return", value |-> v]
Raised(e) == [kind |-> "raise", exc |-> e]
NoResult == [kind |-> "pending"]

Min(a, b) == IF a <= b THEN a ELSE b

SeqsUpTo(S, n) == UNION {[1..k -> S] : k \in 0..n}

(***************************************************************************)
(* Characters: the classes the regular expressions name, str.lower and     *)
(* str.upper.                                                              *)
(***************************************************************************)
UpperLetters ==
    <<"A","B","C","D","E","F","G","H","I","J","K","L","M",
      "N","O","P","Q","R","S","T","U","V","W","X","Y","Z">>
LowerLetters ==
    <<"a","b","c","d","e","f","g","h","i","j","k","l","m",
      "n","o","p","q","r","s","t","u","v","w","x","y","z">>
Digits == <<"0","1","2","3","4","5","6","7","8","9">>

IsUpper(c) == \E i \in DOMAIN UpperLetters : UpperLetters[i] = c
IsLower(c) == \E i \in DOMAIN LowerLetters : LowerLetters[i] = c
IsDigit(c) == \E i \in DOMAIN Digits : Digits[i] = c
IsLetter(c) == IsUpper(c) \/ IsLower(c)

ToLower(c) ==
    IF IsUpper(c)
    THEN LowerLetters[CHOOSE i \in DOMAIN UpperLetters : UpperLetters[i] = c]
    ELSE c
ToUpper(c) ==
    IF IsLower(c)
    THEN UpperLetters[CHOOSE i \in DOMAIN LowerLetters : LowerLetters[i] = c]
    ELSE c

Lower(s) == [i \in 1..Len(s) |-> ToLower(s[i])]
Upper(s) == [i \in 1..Len(s) |-> ToUpper(s[i])]

(***************************************************************************)
(* parse_for_isin.  isin_pattern = [a-zA-Z]{2}[A-Z0-9]{9}\d ; re.search    *)
(* returns the leftmost match, and the pattern has one length.             *)
(***************************************************************************)
IsinLetters == 2
IsinMiddle == 9
IsinLen == IsinLetters + IsinMiddle + 1

IsinMiddleChar(c) == IsUpper(c) \/ IsDigit(c)

IsinPatternAt(s, i) ==
    /\ i + IsinLen - 1 <= Len(s)
    /\ \A k \in 0..(IsinLetters - 1) : IsLetter(s[i + k])
    /\ \A k \in IsinLetters..(IsinLetters + IsinMiddle - 1) : IsinMiddleChar(s[i + k])
    /\ IsDigit(s[i + IsinLen - 1])

ReSearch(s) ==
    LET hits == {i \in 1..Len(s) : IsinPatternAt(s, i)}
    IN  IF hits = {} THEN None
        ELSE LET i == CHOOSE j \in hits : \A k \in hits : j <= k
             IN  Some(SubSeq(s, i, i + IsinLen - 1))

parse_for_isin(string_object) == ReSearch(string_object)

(***************************************************************************)
(* join_url: the ISIN search endpoint when the search value holds an ISIN, *)
(* the given endpoint otherwise.  A URL is the prefix token followed by    *)
(* the characters appended to it.                                          *)
(***************************************************************************)
SearchEndpoint == "https://www.finanzen.net/suchergebnis.asp?_search="
FundamentalsEndpoint == "https://www.finanzen.net/bilanz_guv/"
ChartEndpoint == "https://www.finanzen.net/aktien/"
EstimatesEndpoint == "https://www.finanzen.net/schaetzungen/"

join_url(base, search_value) ==
    LET found == parse_for_isin(search_value)
    IN  [url  |-> IF found # None THEN <<SearchEndpoint>> \o search_value
                  ELSE <<base>> \o search_value,
         isin |-> found]

(***************************************************************************)
(* Numbers.  A float is the decimal it denotes, m / 10^e, kept in lowest   *)
(* form (no trailing zero in the fraction), so that two floats are equal   *)
(* exactly when the records are.                                           *)
(***************************************************************************)
RECURSIVE Decimal(_, _)
Decimal(m, e) ==
    IF e > 0 /\ m % 10 = 0 THEN Decimal(m \div 10, e - 1) ELSE [m |-> m, e |-> e]

DigitVal(c) == (CHOOSE i \in DOMAIN Digits : Digits[i] = c) - 1

RECURSIVE IntOf(_)
IntOf(ds) ==
    IF ds = <<>> THEN 0
    ELSE 10 * IntOf(SubSeq(ds, 1, Len(ds) - 1)) + DigitVal(ds[Len(ds)])

(***************************************************************************)
(* float(x) on the characters the model's cells are made of: an optional   *)
(* sign, then digits with at most one '.', at least one digit.  Anything   *)
(* else raises ValueError.                                                 *)
(***************************************************************************)
PyFloat(x) ==
    LET signed == x # <<>> /\ x[1] \in {"-", "+"}
        body   == IF signed THEN Tail(x) ELSE x
        dots   == {i \in 1..Len(body) : body[i] = "."}
        digits == SelectSeq(body, IsDigit)
        valid  == /\ \A i \in 1..Len(body) : IsDigit(body[i]) \/ body[i] = "."
                  /\ Cardinality(dots) <= 1
                  /\ digits # <<>>
        e      == IF dots = {} THEN 0 ELSE Len(body) - (CHOOSE i \in dots : TRUE)
        m      == IntOf(digits)
    IN  IF ~valid THEN Raised("ValueError")
        ELSE Returned(Decimal(IF signed /\ x[1] = "-" THEN 0 - m ELSE m, e))

(***************************************************************************)
(* re.sub on cell text.                                                    *)
(***************************************************************************)
RemoveDots(x) == SelectSeq(x, LAMBDA c : c # ".")
CommaToDot(x) == [i \in 1..Len(x) |-> IF x[i] = "," THEN "." ELSE x[i]]
KeepDigitsAndCommas(x) == SelectSeq(x, LAMBDA c : IsDigit(c) \/ c = ",")

Dash == <<"-">>

(***************************************************************************)
(* One cell of get_fundamentals._parse_table: '.' removed, then ','        *)
(* replaced by '.', then float unless the text is "-".                     *)
(***************************************************************************)
FundamentalsCellSwapped(x) ==
    LET y == RemoveDots(CommaToDot(x))
    IN  IF y # Dash THEN PyFloat(y) ELSE Returned(None)

FundamentalsCell(x) ==
    LET y == CommaToDot(RemoveDots(x))
    IN  IF y # Dash THEN PyFloat(y) ELSE Returned(None)

(***************************************************************************)
(* One cell of get_estimates: "-" is None; otherwise everything but digits *)
(* and ',' is removed, ',' replaced by '.', then float.                    *)
(***************************************************************************)
EstimatesCell(x) ==
    IF x = Dash THEN Returned(None)
    ELSE PyFloat(CommaToDot(KeepDigitsAndCommas(x)))

(***************************************************************************)
(* dict(zip(keys, values)): pairs up to the shorter of the two; a later    *)
(* pair with the same key overwrites an earlier one.                       *)
(***************************************************************************)
DictZip(keys, values) ==
    LET n == Min(Len(keys), Len(values))
    IN  [k \in {keys[i] : i \in 1..n} |->
            values[CHOOSE i \in 1..n : keys[i] = k /\ \A j \in 1..n : keys[j] = k => j <= i]]

(***************************************************************************)
(* The first error of a list comprehension, or the list of its values.     *)
(***************************************************************************)
Collect(outs) ==
    LET bad == {i \in 1..Len(outs) : outs[i].kind = "raise"}
    IN  IF bad # {} THEN outs[CHOOSE i \in bad : \A j \in bad : i <= j]
        ELSE Returned([i \in 1..Len(outs) |-> outs[i].value])

DropFirst(s, n) == SubSeq(s, n + 1, Len(s))

(***************************************************************************)
(* The parsed page.  A text is a sequence of tokens.  A page holds         *)
(*   boxes : the texts of its <div class="special_info_box">, in order     *)
(*   og    : None, or Some of the attributes of <meta property="og:title"> *)
(*           (content: None when the tag has no content attribute)         *)
(*   h2, h1: the sections under an <h2> / <h1> heading, in document order, *)
(*           each [heading, ths, trs]; a <tr> is [bold, tds]: the text of  *)
(*           its <td class="font-bold"> if any, and the texts of its <td>  *)
(*   h3    : the boxes under an <h3 class=...> heading, each with the      *)
(*           tables pandas.read_html finds in it                           *)
(*   xrows : the rows the lxml functions' XPath selects, each the list of  *)
(*           texts of the row's children                                   *)
(***************************************************************************)
(* the message _check_site looks for (its umlaut written ue) *)
load_error == "Die gewuenschte Seite konnte nicht angezeigt werden"

Contains(text, token) == \E i \in 1..Len(text) : text[i] = token

(* re.compile(signaler) searched in a heading: the signaler's words occur  *)
(* in a row in the heading, from its start when the pattern begins with ^  *)
Signaler(anchored, words) == [anchored |-> anchored, words |-> words]

ReMatches(signaler, heading) ==
    \E i \in 1..(Len(heading) - Len(signaler.words) + 1) :
        /\ signaler.anchored => i = 1
        /\ SubSeq(heading, i, i + Len(signaler.words) - 1) = signaler.words

(* soup.find(tag, text=re.compile(signaler)): the first match, or None *)
FindHeading(sections, signaler) ==
    LET hits == {i \in 1..Len(sections) : ReMatches(signaler, sections[i].heading)}
    IN  IF hits = {} THEN None
        ELSE Some(sections[CHOOSE i \in hits : \A j \in hits : i <= j])

DictPut(d, k, v) == [x \in (DOMAIN d) \cup {k} |-> IF x = k THEN v ELSE d[x]]
EmptyDict == [x \in {} |-> None]

(***************************************************************************)
(* get_fundamentals._parse_table: the rows after the header row; the name  *)
(* from the font-bold cell; the cells after the first two, normalised and  *)
(* zipped with the header cells after the first two.                       *)
(***************************************************************************)
FundamentalsSkip == 2

RECURSIVE FundamentalsRows(_, _, _)
FundamentalsRows(rows, years, table_dict) ==
    IF rows = <<>> THEN Returned(table_dict)
    ELSE LET row      == Head(rows)
             texts    == DropFirst(row.tds, FundamentalsSkip)
             row_data == Collect([i \in 1..Len(texts) |-> FundamentalsCell(texts[i])])
         IN  IF row.bold = None THEN Raised("AttributeError")
             ELSE IF row_data.kind = "raise" THEN row_data
             ELSE FundamentalsRows(Tail(rows), years,
                      DictPut(table_dict, row.bold.v, DictZip(years, row_data.value)))

FundamentalsParseTable(page, signaler) ==
    LET h2 == FindHeading(page.h2, signaler)
    IN  IF h2 = None THEN Raised("AttributeError")
        ELSE FundamentalsRows(DropFirst(h2.v.trs, 1),
                              DropFirst(h2.v.ths, FundamentalsSkip), EmptyDict)

(***************************************************************************)
(* The table loop of get_estimates: the header cells after the first; per  *)
(* row the first cell is the name and the rest are normalised and zipped.  *)
(***************************************************************************)
RECURSIVE EstimatesRows(_, _, _)
EstimatesRows(rows, years, table_dict) ==
    IF rows = <<>> THEN Returned(table_dict)
    ELSE LET fields   == Head(rows).tds
             texts    == DropFirst(fields, 1)
             row_data == Collect([i \in 1..Len(texts) |-> EstimatesCell(texts[i])])
         IN  IF fields = <<>> THEN Raised("IndexError")
             ELSE IF row_data.kind = "raise" THEN row_data
             ELSE EstimatesRows(Tail(rows), years,
                      DictPut(table_dict, fields[1], DictZip(years, row_data.value)))

EstimatesSignaler == Signaler(TRUE, <<"Schaetzungen">>)

EstimatesParseTable(page) ==
    LET h1 == FindHeading(page.h1, EstimatesSignaler)
    IN  IF h1 = None THEN Raised("AttributeError")
        ELSE EstimatesRows(DropFirst(h1.v.trs, 1), DropFirst(h1.v.ths, 1), EmptyDict)

(***************************************************************************)
(* get_chart_infos._parse_table: the first table pandas reads in the box   *)
(* under the Performance headline, indexed by its first column.  A frame   *)
(* is [columns, rows, index]: index is None until set_index names it.      *)
(***************************************************************************)
PerformanceSignaler == Signaler(FALSE, <<"Performance">>)

ChartParseTable(page) ==
    LET boxes == SelectSeq(page.h3, LAMBDA b : b.class = "box-headline")
        h3    == FindHeading(boxes, PerformanceSignaler)
    IN  IF h3 = None THEN Raised("AttributeError")
        ELSE IF h3.v.tables = <<>> THEN Raised("ValueError")
        ELSE LET df == h3.v.tables[1]
             IN  IF df.columns = <<>> THEN Raised("IndexError")
                 ELSE Returned([df EXCEPT !.index = Some(df.columns[1])])

(* DataFrame.to_dict("index"): per row, the index value maps to the other *)
(* columns' values                                                         *)
ToDictIndex(df) ==
    LET n == Len(df.rows)
    IN  [k \in {df.rows[i][1] : i \in 1..n} |->
            LET row == df.rows[CHOOSE i \in 1..n : df.rows[i][1] = k]
            IN  DictZip(DropFirst(df.columns, 1), DropFirst(row, 1))]

(***************************************************************************)
(* _check_site: the first special_info_box, if its text holds the          *)
(* page-not-found message, raises.                                         *)
(***************************************************************************)
check_site_any(page) ==
    IF \E i \in 1..Len(page.boxes) : Contains(page.boxes[i], load_error)
    THEN Raised("ValueError: Could not find Stock")
    ELSE Returned(None)

check_site(page) ==
    LET message == IF page.boxes = <<>> THEN None ELSE Some(page.boxes[1])
    IN  IF message # None /\ Contains(message.v, load_error)
        THEN Raised("ValueError: Could not find Stock")
        ELSE Returned(None)

(***************************************************************************)
(* get_isin_from_soup: the ISIN in the og:title content, if the tag is     *)
(* there; a tag without content raises KeyError.                           *)
(***************************************************************************)
get_isin_from_soup(page) ==
    IF page.og = None THEN Returned(None)
    ELSE IF page.og.v.content = None THEN Raised("KeyError")
    ELSE Returned(parse_for_isin(page.og.v.content.v))

(***************************************************************************)
(* try: ... except Exception: x = None                                     *)
(***************************************************************************)
Uncaught(outcome) ==
    IF outcome.kind = "raise" THEN outcome ELSE Returned(Some(outcome.value))

ExceptNone(outcome) ==
    IF outcome.kind = "raise" THEN Returned(None) ELSE Returned(Some(outcome.value))

FirstRaise(outcomes) ==
    LET bad == {i \in 1..Len(outcomes) : outcomes[i].kind = "raise"}
    IN  IF bad = {} THEN None
        ELSE Some(outcomes[CHOOSE i \in bad : \A j \in bad : i <= j])

(***************************************************************************)
(* get_fundamentals after the site check: four sections, the ISIN, the     *)
(* fifth section, the record.                                              *)
(***************************************************************************)
QuotesSignaler == Signaler(FALSE, <<"Die", "Aktie">>)
KeyRatiosSignaler == Signaler(FALSE, <<"Unternehmenskennzahlen">>)
IncomeSignaler == Signaler(FALSE, <<"GuV">>)
BalanceSignaler == Signaler(FALSE, <<"Bilanz">>)
OtherSignaler == Signaler(FALSE, <<"sonstige", "Angaben">>)

FundamentalsSections ==
    <<[key |-> "Quotes",           signaler |-> QuotesSignaler],
      [key |-> "Key Ratios",       signaler |-> KeyRatiosSignaler],
      [key |-> "Income Statement", signaler |-> IncomeSignaler],
      [key |-> "Balance Sheet",    signaler |-> BalanceSignaler],
      [key |-> "Other",            signaler |-> OtherSignaler]>>

FundamentalsSectionAbort(page, signaler) ==
    Uncaught(FundamentalsParseTable(page, signaler))

FundamentalsSection(page, signaler) ==
    ExceptNone(FundamentalsParseTable(page, signaler))

ResolveIsin(isin0, page) ==
    IF isin0 # None THEN Returned(isin0) ELSE get_isin_from_soup(page)

IsinField(found) == Upper(found.v)

FundamentalsExtract(page, isin0) ==
    LET sec      == [i \in 1..5 |-> FundamentalsSection(page, FundamentalsSections[i].signaler)]
        early    == FirstRaise(SubSeq(sec, 1, 4))
        resolved == ResolveIsin(isin0, page)
        tried    == [i \in 1..5 |-> FundamentalsSections[i].key]
    IN  IF early # None
        THEN [result |-> early.v, parsed |-> SubSeq(tried, 1, 4), isin |-> isin0]
        ELSE IF resolved.kind = "raise"
        THEN [result |-> resolved, parsed |-> SubSeq(tried, 1, 4), isin |-> isin0]
        ELSE IF sec[5].kind = "raise"
        THEN [result |-> sec[5], parsed |-> tried, isin |-> resolved.value]
        ELSE IF resolved.value = None
        THEN [result |-> Raised("AttributeError: upper"), parsed |-> tried,
              isin |-> resolved.value]
        ELSE [result |-> Returned(
                  [k \in {"Quotes", "Key Ratios", "Income Statement",
                          "Balance Sheet", "ISIN", "Other"} |->
                      IF k = "ISIN" THEN Some(IsinField(resolved.value))
                      ELSE sec[CHOOSE i \in 1..5 : FundamentalsSections[i].key = k].value]),
              parsed |-> tried, isin |-> resolved.value]

(***************************************************************************)
(* get_chart_infos after the site check: the Performance table (None when  *)
(* it cannot be parsed), the ISIN, the record.                             *)
(***************************************************************************)
PerformanceDict(performance_info) ==
    IF performance_info = None THEN Raised("AttributeError: to_dict")
    ELSE Returned(Some(ToDictIndex(performance_info.v)))

ChartExtract(page, isin0) ==
    LET caught   == ExceptNone(ChartParseTable(page))
        perf     == caught.value
        resolved == ResolveIsin(isin0, page)
        dict     == PerformanceDict(perf)
    IN  IF resolved.kind = "raise"
        THEN [result |-> resolved, parsed |-> <<"Performance">>, isin |-> isin0]
        ELSE IF resolved.value = None
        THEN [result |-> Raised("AttributeError: upper"), parsed |-> <<"Performance">>,
              isin |-> resolved.value]
        ELSE IF dict.kind = "raise"
        THEN [result |-> dict, parsed |-> <<"Performance">>, isin |-> resolved.value]
        ELSE [result |-> Returned([k \in {"ISIN", "Performance"} |->
                                      IF k = "ISIN" THEN Some(IsinField(resolved.value))
                                      ELSE dict.value]),
              parsed |-> <<"Performance">>, isin |-> resolved.value]

(***************************************************************************)
(* get_estimates after the site check: the table, nothing caught.          *)
(***************************************************************************)
EstimatesExtract(page) ==
    [result |-> EstimatesParseTable(page), parsed |-> <<"Estimates">>, isin |-> None]

(***************************************************************************)
(* The lxml functions.  Each takes results=[]: one list object per         *)
(* function, made when the function is defined and bound to the parameter  *)
(* of every call that passes none.  A list a call works on is either a new *)
(* one or that shared one.                                                 *)
(***************************************************************************)
NewList(default) == [shared |-> FALSE, items |-> <<>>]
DefaultList(default) == [shared |-> TRUE, items |-> default]

(* x.split(" ")[0] *)
SplitFirst(x) ==
    LET spaces == {i \in 1..Len(x) : x[i] = " "}
    IN  IF spaces = {} THEN x
        ELSE SubSeq(x, 1, (CHOOSE i \in spaces : \A j \in spaces : i <= j) - 1)

(* pandas.DataFrame(rows) with the first row made the header: short rows   *)
(* are filled with missing values                                          *)
Pad(row, w) == [i \in 1..w |-> IF i <= Len(row) THEN Some(row[i]) ELSE None]
Width(rows) ==
    LET lens == {Len(rows[i]) : i \in 1..Len(rows)}
    IN  IF lens = {} THEN 0 ELSE CHOOSE w \in lens : \A v \in lens : v <= w
HeaderFrame(table_data) ==
    [columns |-> Pad(table_data[1], Width(table_data)),
     rows    |-> [i \in 1..(Len(table_data) - 1) |->
                     Pad(table_data[i + 1], Width(table_data))]]

(***************************************************************************)
(* get_estimates_lxml: data_table = [] ; per row the texts of its          *)
(* children; the first row is the header, the cells of the others after    *)
(* the first are numbers unless "-"; the frame is rebuilt after each row.  *)
(***************************************************************************)
EstimatesLxmlDataTable(results) == NewList(results)

EstimatesLxmlCell(x) ==
    IF x = Dash THEN Returned(x)
    ELSE PyFloat(SplitFirst(CommaToDot(RemoveDots(x))))

RECURSIVE EstimatesLxmlLoop(_, _, _, _)
EstimatesLxmlLoop(rows, data_table, header_row, dataframe) ==
    IF rows = <<>>
    THEN [result |-> IF dataframe = None THEN Raised("UnboundLocalError")
                     ELSE Returned(dataframe.v),
          data_table |-> data_table]
    ELSE LET children == Head(rows)
             texts    == [i \in 1..Len(children) |-> children[i].v]
             cells    == Collect([i \in 1..(Len(texts) - 1) |->
                                     EstimatesLxmlCell(texts[i + 1])])
             table_row ==
                 IF header_row # 0 THEN <<texts[1]>> \o cells.value
                 ELSE <<<<"Estimation">>>> \o DropFirst(texts, 1)
             grown    == Append(data_table, table_row)
         IN  IF \E i \in 1..Len(children) : children[i] = None
             THEN [result |-> Raised("IndexError"), data_table |-> data_table]
             ELSE IF header_row = 0 /\ texts = <<>>
             THEN [result |-> Raised("IndexError"), data_table |-> data_table]
             ELSE IF header_row # 0 /\ texts # <<>> /\ cells.kind = "raise"
             THEN [result |-> cells, data_table |-> data_table]
             ELSE IF header_row # 0 /\ texts = <<>>
             THEN EstimatesLxmlLoop(Tail(rows), Append(data_table, <<>>), 1,
                                    Some(HeaderFrame(Append(data_table, <<>>))))
             ELSE EstimatesLxmlLoop(Tail(rows), grown, 1, Some(HeaderFrame(grown)))

EstimatesLxmlExtract(page, data_table) ==
    EstimatesLxmlLoop(page.xrows, data_table, 0, None)

(***************************************************************************)
(* get_fundamentals_lxml: complete_data_set = [] ; per table name, per     *)
(* element the XPath selects (the box of each heading holding the name,    *)
(* and the heading itself, which holds no table): the header texts, then   *)
(* the texts of each row after the first with '.' removed and ',' made     *)
(* '.' in the cells after the first; a frame per element; all rows of all  *)
(* frames in the end.  Cells without text yield no text node.              *)
(***************************************************************************)
FundamentalsLxmlDataSet(results) == NewList(results)

LxmlTables ==
    <<<<"Die", "Aktie">>, <<"Unternehmenskennzahlen">>, <<"GuV">>, <<"Bilanz">>,
      <<"sonstige", "Angaben">>>>

TextNodes(texts, empty) == SelectSeq(texts, LAMBDA t : t # empty)

FundamentalsLxmlRow(tr) ==
    LET data == TextNodes(tr.tds, <<>>)
    IN  [i \in 1..Len(data) |->
            IF i = 1 THEN data[i] ELSE CommaToDot(RemoveDots(data[i]))]

FundamentalsLxmlFrames(section) ==
    LET table_data ==
            <<TextNodes(section.ths, "")>>
                \o [r \in 1..(Len(section.trs) - 1) |-> FundamentalsLxmlRow(section.trs[r + 1])]
    IN  <<HeaderFrame(table_data), HeaderFrame(<<<<>>>>)>>

RECURSIVE FramesOf(_, _)
FramesOf(sections, table) ==
    IF sections = <<>> THEN <<>>
    ELSE (IF ReMatches(Signaler(FALSE, table), Head(sections).heading)
          THEN FundamentalsLxmlFrames(Head(sections)) ELSE <<>>)
         \o FramesOf(Tail(sections), table)

RECURSIVE ConcatRows(_)
ConcatRows(frames) ==
    IF frames = <<>> THEN <<>>
    ELSE [i \in 1..Len(Head(frames).rows) |->
             [columns |-> Head(frames).columns, cells |-> Head(frames).rows[i]]]
         \o ConcatRows(Tail(frames))

FundamentalsLxmlExtract(page, complete_data_set) ==
    LET F[t \in 0..5] ==
            IF t = 0 THEN complete_data_set
            ELSE F[t - 1] \o FramesOf(page.h2, LxmlTables[t])
    IN  [result |-> IF F[5] = <<>> THEN Raised("ValueError")
                    ELSE Returned(ConcatRows(F[5])),
         data_table |-> F[5]]

(***************************************************************************)
(* search_stock_lxml: df is a new frame and results = [] a new list; the   *)
(* first row is skipped; per row the name, the link without its /aktien/   *)
(* and -aktie, the second and the third cell; limit rows at most when      *)
(* limit is not negative.                                                  *)
(***************************************************************************)
SearchResults(results) == NewList(results)

StripLink(raw_link) == SelectSeq(raw_link, LAMBDA t : t \notin {"/aktien/", "-aktie"})

RECURSIVE SearchLoop(_, _, _)
SearchLoop(rows, lim, df) ==
    IF rows = <<>> THEN [result |-> Returned(df), data_table |-> df]
    ELSE LET el == Head(rows)
         IN  IF Len(el.tds) < 3
             THEN [result |-> Raised("IndexError"), data_table |-> df]
             ELSE IF lim = 0 THEN [result |-> Returned(df), data_table |-> df]
             ELSE SearchLoop(Tail(rows), IF lim > 0 THEN lim - 1 ELSE lim,
                             Append(df, <<el.a, StripLink(el.href), el.tds[2], el.tds[3]>>))

SearchExtract(page, lim, df) ==
    IF page.srows = <<>> THEN [result |-> Raised("ValueError"), data_table |-> df]
    ELSE SearchLoop(Tail(page.srows), lim, df)

(***************************************************************************)
(* The calls.  A call of get_fundamentals, get_chart_infos or              *)
(* get_estimates lower-cases its argument, builds the URL and fetches the  *)
(* page (any page of the given set: the site decides), then checks the     *)
(* site, then extracts.                                                    *)
(***************************************************************************)
NoPage == [boxes |-> <<>>, og |-> None, h2 |-> <<>>, h1 |-> <<>>, h3 |-> <<>>,
           xrows |-> <<>>, srows |-> <<>>]

DefaultHeap ==
    [f \in {"get_estimates_lxml", "get_fundamentals_lxml",
            "get_current_value_lxml", "search_stock_lxml"} |-> <<>>]

DefaultLimit == 0 - 1

Init ==
    /\ pc = "idle"
    /\ fn = "none"
    /\ arg = <<>>
    /\ stock = <<>>
    /\ url = <<>>
    /\ isin = None
    /\ soup = NoPage
    /\ parsed = <<>>
    /\ result = NoResult
    /\ heap = DefaultHeap
    /\ limit = DefaultLimit
    /\ calls = 0

CallGetFundamentals(a, page) ==
    /\ pc = "idle"
    /\ LET joined == join_url(FundamentalsEndpoint, Lower(a))
       IN  /\ url' = joined.url
           /\ isin' = joined.isin
    /\ fn' = "get_fundamentals"
    /\ arg' = a
    /\ stock' = Lower(a)
    /\ soup' = page
    /\ pc' = "check_site"
    /\ UNCHANGED <<parsed, result, heap, limit, calls>>

CallGetChartInfos(a, page) ==
    /\ pc = "idle"
    /\ LET joined == join_url(ChartEndpoint, Lower(a))
       IN  /\ url' = joined.url
           /\ isin' = joined.isin
    /\ fn' = "get_chart_infos"
    /\ arg' = a
    /\ stock' = Lower(a)
    /\ soup' = page
    /\ pc' = "check_site"
    /\ UNCHANGED <<parsed, result, heap, limit, calls>>

CallGetEstimates(a, page) ==
    /\ pc = "idle"
    /\ fn' = "get_estimates"
    /\ arg' = a
    /\ stock' = Lower(a)
    /\ url' = <<EstimatesEndpoint>> \o Lower(a)
    /\ soup' = page
    /\ pc' = "check_site"
    /\ UNCHANGED <<isin, parsed, result, heap, limit, calls>>

CheckSite ==
    /\ pc = "check_site"
    /\ LET checked == check_site(soup)
       IN  IF checked.kind = "raise"
           THEN pc' = "done" /\ result' = checked
           ELSE pc' = "extract" /\ result' = result
    /\ UNCHANGED <<fn, arg, stock, url, isin, soup, parsed, heap, limit, calls>>

ExtractFundamentals ==
    /\ pc = "extract"
    /\ fn = "get_fundamentals"
    /\ LET out == FundamentalsExtract(soup, isin)
       IN  /\ result' = out.result
           /\ parsed' = out.parsed
           /\ isin' = out.isin
    /\ pc' = "done"
    /\ UNCHANGED <<fn, arg, stock, url, soup, heap, limit, calls>>

ExtractChartInfos ==
    /\ pc = "extract"
    /\ fn = "get_chart_infos"
    /\ LET out == ChartExtract(soup, isin)
       IN  /\ result' = out.result
           /\ parsed' = out.parsed
           /\ isin' = out.isin
    /\ pc' = "done"
    /\ UNCHANGED <<fn, arg, stock, url, soup, heap, limit, calls>>

ExtractEstimates ==
    /\ pc = "extract"
    /\ fn = "get_estimates"
    /\ LET out == EstimatesExtract(soup)
       IN  /\ result' = out.result
           /\ parsed' = out.parsed
    /\ pc' = "done"
    /\ UNCHANGED <<fn, arg, stock, url, isin, soup, heap, limit, calls>>

(* A call of an lxml function fetches the page and goes on to extract; it *)
(* does not lower-case its argument and does not check the site.           *)
CallLxml(f, endpoint, a, page, lim) ==
    /\ pc = "idle"
    /\ fn' = f
    /\ arg' = a
    /\ stock' = a
    /\ url' = <<endpoint>> \o a
    /\ soup' = page
    /\ limit' = lim
    /\ pc' = "extract"
    /\ UNCHANGED <<isin, parsed, result, heap, calls>>

(* the list the call worked on is the shared default: its items stay *)
Store(list, items) == IF list.shared THEN [heap EXCEPT ![fn] = items] ELSE heap

ExtractEstimatesLxml ==
    /\ pc = "extract"
    /\ fn = "get_estimates_lxml"
    /\ LET data_table == EstimatesLxmlDataTable(heap[fn])
           out        == EstimatesLxmlExtract(soup, data_table.items)
       IN  /\ result' = out.result
           /\ heap' = Store(data_table, out.data_table)
    /\ pc' = "done"
    /\ UNCHANGED <<fn, arg, stock, url, isin, soup, parsed, limit, calls>>

ExtractFundamentalsLxml ==
    /\ pc = "extract"
    /\ fn = "get_fundamentals_lxml"
    /\ LET complete_data_set == FundamentalsLxmlDataSet(heap[fn])
           out               == FundamentalsLxmlExtract(soup, complete_data_set.items)
       IN  /\ result' = out.result
           /\ heap' = Store(complete_data_set, out.data_table)
    /\ pc' = "done"
    /\ UNCHANGED <<fn, arg, stock, url, isin, soup, parsed, limit, calls>>

ExtractSearchLxml ==
    /\ pc = "extract"
    /\ fn = "search_stock_lxml"
    /\ LET results == SearchResults(heap[fn])
           out     == SearchExtract(soup, limit, <<>>)
       IN  /\ result' = out.result
           /\ heap' = Store(results, results.items)
    /\ pc' = "done"
    /\ UNCHANGED <<fn, arg, stock, url, isin, soup, parsed, limit, calls>>

(* the call is over: its locals are gone, the default lists stay *)
Finish ==
    /\ pc = "done"
    /\ pc' = "idle"
    /\ fn' = "none"
    /\ arg' = <<>>
    /\ stock' = <<>>
    /\ url' = <<>>
    /\ isin' = None
    /\ soup' = NoPage
    /\ parsed' = <<>>
    /\ result' = NoResult
    /\ limit' = DefaultLimit
    /\ calls' = Min(calls + 1, MaxCalls)
    /\ UNCHANGED heap

(***************************************************************************)
(* The inputs of the page-level specification: stock arguments and pages.  *)
(***************************************************************************)
ArgName == <<"s","a","p">>
ArgIsinDigits == <<"D","E","0","0","0","7","1","6","4","6","0","0">>
ArgIsinLetters == <<"D","E","0","0","0","A","1","E","W","W","W","0">>
StockArgs == {ArgName, ArgIsinDigits, ArgIsinLetters}

TitleIsin == <<"U","S","0","3","7","8","3","3","1","0","0","5">>
OgWithIsin == Some([content |-> Some(<<"A","k","t","i","e"," ">> \o TitleIsin)])
OgLowerIsin == Some([content |-> Some(<<"A","k","t","i","e"," ">> \o Lower(TitleIsin))])
OgWithoutIsin == Some([content |-> Some(<<"A","k","t","i","e">>)])
OgWithoutContent == Some([content |-> None])
OgChoices == {None, OgWithIsin, OgLowerIsin, OgWithoutIsin, OgWithoutContent}

BoxTexts == {<<"Hinweis", load_error>>, <<"Hinweis">>}
BoxSeqs == SeqsUpTo(BoxTexts, MaxBoxes)

(* cell texts: a localized number, the missing sentinel, and one that is   *)
(* no number                                                               *)
GoodCell == <<"1",".","0","0","0",",","5">>
BadCell == <<"n","/","a">>
SampleCells == {GoodCell, Dash, BadCell}

YearLabels == <<"2021", "2022", "2023", "2024", "2025">>
Years(n) == SubSeq(YearLabels, 1, Min(n, Len(YearLabels)))
YearChoices == {Years(n) : n \in 0..MaxCols}

HeaderRow == [bold |-> None, tds |-> <<>>]
NameA == <<"Umsatz">>
NameB == <<"Gewinn">>

(* a body row as the fundamentals page lays it out: checkbox cell, name    *)
(* cell (font-bold unless the row is unnamed), value cells                 *)
FundamentalsRow(named, name, cells) ==
    [bold |-> IF named THEN Some(name) ELSE None, tds |-> <<<<>>, name>> \o cells]
(* as the estimates page lays it out: name cell, value cells *)
EstimatesRow(name, cells) == [bold |-> None, tds |-> <<name>> \o cells]

GoodCells(years) == [i \in 1..Len(years) |-> GoodCell]
CellSeqs == SeqsUpTo(SampleCells, MaxCells)

FundamentalsBodies(years) ==
    LET good == FundamentalsRow(TRUE, NameA, GoodCells(years))
        free == {FundamentalsRow(named, NameB, cells) :
                    named \in BOOLEAN, cells \in CellSeqs}
    IN  {<<>>, <<good>>} \cup {<<r>> : r \in free} \cup {<<good, r>> : r \in free}
            \cup {<<r, good>> : r \in free}

EstimatesBodies(years) ==
    LET good == EstimatesRow(NameA, GoodCells(years))
        free == {EstimatesRow(NameB, cells) : cells \in CellSeqs}
                    \cup {[bold |-> None, tds |-> <<>>]}
    IN  {<<>>, <<good>>} \cup {<<r>> : r \in free} \cup {<<good, r>> : r \in free}
            \cup {<<r, good>> : r \in free}

Headings ==
    <<<<"Die", "Aktie">>,
      <<"Unternehmenskennzahlen", "(in", "EUR)">>,
      <<"GuV", "(in", "Mio.", "EUR)">>,
      <<"Bilanz", "(in", "Mio.", "EUR)">>,
      <<"sonstige", "Angaben">>>>

FundamentalsTable(i, years, body) ==
    [heading |-> Headings[i], ths |-> <<"", "">> \o years, trs |-> <<HeaderRow>> \o body]

DefaultYears == Years(2)
DefaultTable(i) ==
    FundamentalsTable(i, DefaultYears,
                      <<FundamentalsRow(TRUE, NameA, GoodCells(DefaultYears))>>)

(* the sections of `present`, in page order; section `special` holds `t`  *)
SectionsOf(present, special, t) ==
    LET pick(i) == IF i = special THEN t ELSE DefaultTable(i)
        F[i \in 0..5] ==
            IF i = 0 THEN <<>>
            ELSE IF i \in present THEN Append(F[i - 1], pick(i)) ELSE F[i - 1]
    IN  F[5]

(* pages that differ in which sections are there *)
PresencePages ==
    {[NoPage EXCEPT !.og = OgWithIsin, !.h2 = SectionsOf(present, 0, DefaultTable(1))] :
        present \in SUBSET (1..5)}

(* pages with all five sections, one of them holding any table of the bounds *)
TablePages ==
    {[NoPage EXCEPT !.og = OgWithIsin,
                    !.h2 = SectionsOf(1..5, special,
                                      FundamentalsTable(special, years, body))] :
        special \in 1..5, years \in YearChoices,
        body \in FundamentalsBodies(Years(MaxCols))}

(* pages that differ in their info boxes and their og:title *)
SitePages ==
    {[NoPage EXCEPT !.boxes = boxes, !.og = og,
                    !.h2 = SectionsOf(1..5, 0, DefaultTable(1))] :
        boxes \in BoxSeqs, og \in OgChoices}

FundamentalsPages == PresencePages \cup TablePages \cup SitePages

EstimatesHeading == <<"Schaetzungen", "zu", "SAP">>
EstimatesTables ==
    {[heading |-> hd, ths |-> <<"">> \o years, trs |-> <<HeaderRow>> \o body] :
        hd \in {EstimatesHeading, <<"Alle">> \o EstimatesHeading},
        years \in YearChoices, body \in EstimatesBodies(Years(MaxCols))}

EstimatesPages ==
    {[NoPage EXCEPT !.h1 = h1] : h1 \in {<<>>} \cup {<<t>> : t \in EstimatesTables}}
        \cup {[NoPage EXCEPT !.boxes = boxes, !.h1 = <<t>>] :
                boxes \in BoxSeqs,
                t \in {[heading |-> EstimatesHeading, ths |-> <<"">> \o DefaultYears,
                        trs |-> <<HeaderRow, EstimatesRow(NameA, GoodCells(DefaultYears))>>]}}

PerformanceFrame ==
    [columns |-> <<"Zeitraum", "Kurs", "%">>,
     rows    |-> <<<<"1 Woche", Decimal(1005, 1), Decimal(12, 1)>>,
                   <<"1 Jahr", Decimal(905, 1), Decimal(111, 1)>>>>,
     index   |-> None]
ChartBoxes ==
    {<<>>,
     <<[heading |-> <<"Performance">>, class |-> "box-headline", tables |-> <<PerformanceFrame>>]>>,
     <<[heading |-> <<"Performance">>, class |-> "box-headline", tables |-> <<>>]>>,
     <<[heading |-> <<"Performance">>, class |-> "headline", tables |-> <<PerformanceFrame>>]>>,
     <<[heading |-> <<"Kurse">>, class |-> "box-headline", tables |-> <<PerformanceFrame>>]>>}

ChartPages ==
    {[NoPage EXCEPT !.boxes = boxes, !.og = og, !.h3 = h3] :
        boxes \in BoxSeqs, og \in OgChoices, h3 \in ChartBoxes}

(* the rows the lxml functions select *)
XHeader == <<Some(<<"Kennzahl">>), Some(<<"2021">>)>>
XBodyRows ==
    {<<Some(NameA), Some(GoodCell)>>,
     <<Some(NameB), Some(Dash)>>,
     <<Some(NameB), Some(<<"1",",","5"," ","%">>)>>,
     <<Some(NameB), Some(BadCell)>>,
     <<Some(NameB), None>>,
     <<>>}
EstimatesLxmlPages ==
    {[NoPage EXCEPT !.xrows = rows] :
        rows \in {<<>>, <<<<>>>>} \cup {<<XHeader>> \o body : body \in SeqsUpTo(XBodyRows, MaxLxmlRows)}}

SearchRows ==
    {[a |-> <<"SAP">>, href |-> <<"/aktien/", "sap", "-aktie">>,
      tds |-> <<<<"SAP">>, ArgIsinDigits, <<"716460">>>>],
     [a |-> <<"Adidas">>, href |-> <<"/aktien/", "adidas", "-aktie">>,
      tds |-> <<<<"Adidas">>, ArgIsinLetters, <<"A1EWWW">>>>],
     [a |-> <<"Apple">>, href |-> <<"/aktien/", "apple", "-aktie">>,
      tds |-> <<<<"Apple">>, TitleIsin>>]}
SearchHeader == [a |-> <<>>, href |-> <<>>, tds |-> <<>>]
SearchPages ==
    {[NoPage EXCEPT !.srows = rows] :
        rows \in {<<>>} \cup {<<SearchHeader>> \o body : body \in SeqsUpTo(SearchRows, MaxLxmlRows)}}
Limits == {0 - 1, 0, 1}

Next ==
    \/ pc = "idle" /\ \E a \in StockArgs, page \in FundamentalsPages : CallGetFundamentals(a, page)
    \/ pc = "idle" /\ \E a \in StockArgs, page \in ChartPages : CallGetChartInfos(a, page)
    \/ pc = "idle" /\ \E a \in {ArgName}, page \in EstimatesPages : CallGetEstimates(a, page)
    \/ pc = "idle" /\ \E a \in {ArgName, ArgIsinDigits}, page \in EstimatesLxmlPages :
          CallLxml("get_estimates_lxml", EstimatesEndpoint, a, page, DefaultLimit)
    \/ pc = "idle" /\ \E a \in {ArgName, ArgIsinDigits}, page \in PresencePages :
          CallLxml("get_fundamentals_lxml", FundamentalsEndpoint, a, page, DefaultLimit)
    \/ pc = "idle" /\ \E a \in {ArgName, ArgIsinDigits}, page \in SearchPages, lim \in Limits :
          CallLxml("search_stock_lxml", SearchEndpoint, a, page, lim)
    \/ CheckSite
    \/ ExtractFundamentals
    \/ ExtractChartInfos
    \/ ExtractEstimates
    \/ ExtractEstimatesLxml
    \/ ExtractFundamentalsLxml
    \/ ExtractSearchLxml
    \/ Finish

Spec == Init /\ [][Next]_vars

(***************************************************************************)
(* The specification of the numeric normalisation: get_fundamentals and    *)
(* get_estimates on pages whose table has one row with one value cell,     *)
(* the cell being any text of the bounds (a sign only at its start) or one *)
(* of the specification's examples.                                        *)
(***************************************************************************)
CellChars == {"1", "0", ".", ","}
CellTexts ==
    SeqsUpTo(CellChars, MaxCellLen)
        \cup {Dash \o x : x \in SeqsUpTo(CellChars, MaxCellLen - 1)}
        \cup {<<"1",".","2","3","4",",","5","6">>, GoodCell}

OneCellColumn == <<"2023">>
FundamentalsCellPage(x) ==
    [NoPage EXCEPT !.og = OgWithIsin,
                   !.h2 = <<FundamentalsTable(1, OneCellColumn,
                                              <<FundamentalsRow(TRUE, NameA, <<x>>)>>)>>]
EstimatesCellPage(x) ==
    [NoPage EXCEPT !.h1 = <<[heading |-> EstimatesHeading, ths |-> <<"">> \o OneCellColumn,
                             trs |-> <<HeaderRow, EstimatesRow(NameA, <<x>>)>>]>>]

(* the call counter starts at its bound: these calls come after others *)
InitLater ==
    /\ pc = "idle"
    /\ fn = "none"
    /\ arg = <<>>
    /\ stock = <<>>
    /\ url = <<>>
    /\ isin = None
    /\ soup = NoPage
    /\ parsed = <<>>
    /\ result = NoResult
    /\ heap = DefaultHeap
    /\ limit = DefaultLimit
    /\ calls = MaxCalls

NextNorm ==
    \/ pc = "idle" /\ \E x \in CellTexts : CallGetFundamentals(ArgName, FundamentalsCellPage(x))
    \/ pc = "idle" /\ \E x \in CellTexts : CallGetEstimates(ArgName, EstimatesCellPage(x))
    \/ CheckSite
    \/ ExtractFundamentals
    \/ ExtractEstimates
    \/ Finish

SpecNorm == InitLater /\ [][NextNorm]_vars

(***************************************************************************)
(* The specification of the ISIN extractor and the URL builder:            *)
(* parse_for_isin, and get_fundamentals and get_chart_infos on one page,   *)
(* on arguments that are an ISIN with up to MaxOverrides characters        *)
(* replaced and up to MaxPad characters put before and after it.           *)
(***************************************************************************)
MaxOverrides == 2
IsinChars == {"A", "e", "0", "-"}
PadChars == {"D", "0"}
IsinBases == {ArgIsinDigits, ArgIsinLetters, Lower(ArgIsinLetters)}

RECURSIVE Overridden(_, _)
Overridden(bases, n) ==
    IF n = 0 THEN bases
    ELSE Overridden(bases \cup {[b EXCEPT ![i] = c] :
                                   b \in bases, i \in 1..IsinLen, c \in IsinChars}, n - 1)

IsinInputs ==
    {pre \o core \o suf :
        pre \in SeqsUpTo(PadChars, MaxPad), suf \in SeqsUpTo(PadChars, MaxPad),
        core \in Overridden(IsinBases, MaxOverrides)}
        \cup {ArgName}

IsinPage == [NoPage EXCEPT !.og = OgWithIsin, !.h2 = SectionsOf(1..5, 0, DefaultTable(1)),
                           !.h3 = <<[heading |-> <<"Performance">>, class |-> "box-headline",
                                     tables |-> <<PerformanceFrame>>]>>]

(* parse_for_isin called on its own *)
CallParseForIsin(a) ==
    /\ pc = "idle"
    /\ fn' = "parse_for_isin"
    /\ arg' = a
    /\ result' = Returned(parse_for_isin(a))
    /\ pc' = "done"
    /\ UNCHANGED <<stock, url, isin, soup, parsed, heap, limit, calls>>

NextIsin ==
    \/ pc = "idle" /\ \E a \in IsinInputs : CallParseForIsin(a)
    \/ pc = "idle" /\ \E a \in IsinInputs : CallGetFundamentals(a, IsinPage)
    \/ pc = "idle" /\ \E a \in IsinInputs : CallGetChartInfos(a, IsinPage)
    \/ CheckSite
    \/ ExtractFundamentals
    \/ ExtractChartInfos
    \/ Finish

SpecIsin == InitLater /\ [][NextIsin]_vars

(***************************************************************************)
(* What the claims speak of, said of the page and the argument themselves. *)
(***************************************************************************)
NotFound == Raised("ValueError: Could not find Stock")
SiteChecked == {"get_fundamentals", "get_chart_infos", "get_estimates"}

AnyBoxHasMessage == \E i \in 1..Len(soup.boxes) : Contains(soup.boxes[i], load_error)
FirstBoxHasMessage == soup.boxes # <<>> /\ Contains(soup.boxes[1], load_error)

(* the ISIN shape of the specification: 2 letters, 9 alphanumerics, 1 digit *)
IsIsin(s) ==
    /\ Len(s) = 12
    /\ IsLetter(s[1]) /\ IsLetter(s[2])
    /\ \A k \in 3..11 : IsLetter(s[k]) \/ IsDigit(s[k])
    /\ IsDigit(s[12])
HoldsIsin(s) == \E i \in 1..(Len(s) - 11) : IsIsin(SubSeq(s, i, i + 11))
FirstIsin(s) ==
    SubSeq(s, CHOOSE i \in 1..(Len(s) - 11) :
                  /\ IsIsin(SubSeq(s, i, i + 11))
                  /\ \A j \in 1..(i - 1) : ~IsIsin(SubSeq(s, j, j + 11)),
           (CHOOSE i \in 1..(Len(s) - 11) :
                  /\ IsIsin(SubSeq(s, i, i + 11))
                  /\ \A j \in 1..(i - 1) : ~IsIsin(SubSeq(s, j, j + 11))) + 11)
IsUpperCased(s) == \A i \in 1..Len(s) : ~IsLower(s[i])

TitleContent ==
    IF soup.og # None /\ soup.og.v.content # None THEN soup.og.v.content.v ELSE <<>>
(* the call has an ISIN to store: one found in its argument or in og:title *)
IsinResolvable == isin # None \/ parse_for_isin(TitleContent) # None

(* the localized number format: digits, either plain or in groups split by *)
(* '.' (the first of one to three digits, the others of three), then       *)
(* optionally ',' and decimals                                             *)
CommaAt(x) == {i \in 1..Len(x) : x[i] = ","}
IntPart(x) == IF CommaAt(x) = {} THEN x ELSE SubSeq(x, 1, (CHOOSE i \in CommaAt(x) : TRUE) - 1)
FracPart(x) == IF CommaAt(x) = {} THEN <<>> ELSE SubSeq(x, (CHOOSE i \in CommaAt(x) : TRUE) + 1, Len(x))
IsGrouped(g) ==
    /\ g # <<>>
    /\ IsDigit(g[Len(g)])
    /\ \A i \in 1..Len(g) :
          IF (Len(g) - i) % 4 = 3 THEN g[i] = "." /\ i > 1 ELSE IsDigit(g[i])
IsPlain(g) == g # <<>> /\ \A i \in 1..Len(g) : IsDigit(g[i])
IsLocalized(x) ==
    /\ Cardinality(CommaAt(x)) <= 1
    /\ IsGrouped(IntPart(x)) \/ IsPlain(IntPart(x))
    /\ CommaAt(x) # {} => FracPart(x) # <<>>
    /\ \A i \in 1..Len(FracPart(x)) : IsDigit(FracPart(x)[i])
(* the number a localized text denotes *)
LocalizedValue(x) ==
    Decimal(IntOf(SelectSeq(IntPart(x), IsDigit) \o FracPart(x)), Len(FracPart(x)))

(* the section of the page under the i-th fundamentals heading, if there *)
SectionAt(i) == {k \in 1..Len(soup.h2) : soup.h2[k].heading = Headings[i]}
HeadingPresent(i) == SectionAt(i) # {}
TheSection(i) == soup.h2[CHOOSE k \in SectionAt(i) : \A j \in SectionAt(i) : k <= j]
BodyRows(section) == DropFirst(section.trs, 1)
ValueCells(row) == DropFirst(row.tds, 2)
ColumnLabels(section) == DropFirst(section.ths, 2)
(* every body row has its name cell and every value cell is a localized    *)
(* number or the missing sentinel                                          *)
TableParses(section) ==
    \A r \in 1..Len(BodyRows(section)) :
        /\ BodyRows(section)[r].bold # None
        /\ \A c \in 1..Len(ValueCells(BodyRows(section)[r])) :
              LET x == ValueCells(BodyRows(section)[r])[c]
              IN  x = Dash \/ IsLocalized(x)
RowNames(section) == {BodyRows(section)[r].bold.v : r \in 1..Len(BodyRows(section))}

FundamentalsDone == pc = "done" /\ fn = "get_fundamentals" /\ ~FirstBoxHasMessage

(* C3: when get_fundamentals runs on a page that passes the site check and *)
(* has an ISIN to store, it returns a record; a category whose heading is  *)
(* absent is None in it, and a category whose heading is there and whose   *)
(* table parses holds that table, one entry per row name.                  *)
C3_MissingSectionIsNone ==
    (FundamentalsDone /\ IsinResolvable) =>
        /\ result.kind = "return"
        /\ \A i \in 1..5 :
              LET got == result.value[FundamentalsSections[i].key]
              IN  /\ ~HeadingPresent(i) => got = None
                  /\ (HeadingPresent(i) /\ TableParses(TheSection(i))) =>
                        /\ got # None
                        /\ DOMAIN got.v = RowNames(TheSection(i))

C3_Witness ==
    /\ FundamentalsDone /\ IsinResolvable
    /\ result.kind = "return"
    /\ ~HeadingPresent(4)
    /\ result.value["Balance Sheet"] = None
    /\ \A i \in {1, 2, 3, 5} :
          /\ HeadingPresent(i)
          /\ result.value[FundamentalsSections[i].key] # None
          /\ DOMAIN result.value[FundamentalsSections[i].key].v = {NameA}

PerformanceParses ==
    \E k \in 1..Len(soup.h3) :
        /\ soup.h3[k].class = "box-headline"
        /\ Contains(soup.h3[k].heading, "Performance")
        /\ soup.h3[k].tables # <<>>
(* C4: when get_chart_infos runs on a page that passes the site check and  *)
(* has an ISIN to store but no Performance table to parse, it returns a    *)
(* record with Performance None and the ISIN.                              *)
C4_MissingPerformanceIsNone ==
    (pc = "done" /\ fn = "get_chart_infos" /\ ~FirstBoxHasMessage
        /\ IsinResolvable /\ ~PerformanceParses) =>
        /\ result.kind = "return"
        /\ result.value["Performance"] = None
        /\ result.value["ISIN"] # None

(* C5, as claimed: when any special_info_box of the page holds the         *)
(* page-not-found message, the call raises the stock-not-found error with  *)
(* no section tried; when none does, the check raises nothing and the      *)
(* extraction runs.                                                        *)
C5_AnyBoxFailsFast ==
    (fn \in SiteChecked /\ pc \in {"extract", "done"}) =>
        /\ AnyBoxHasMessage => (pc = "done" /\ result = NotFound /\ parsed = <<>>)
        /\ ~AnyBoxHasMessage => (result # NotFound /\ (pc = "done" => parsed # <<>>))

(* C5, amended: when the first special_info_box of the page holds the      *)
(* page-not-found message, the call raises the stock-not-found error with  *)
(* no section tried and returns no record; when there is no box or the     *)
(* first one does not hold the message, the check raises nothing and the   *)
(* extraction runs.                                                        *)
C5_FirstBoxFailsFast ==
    (fn \in SiteChecked /\ pc \in {"extract", "done"}) =>
        /\ FirstBoxHasMessage => (pc = "done" /\ result = NotFound /\ parsed = <<>>)
        /\ ~FirstBoxHasMessage => (result # NotFound /\ (pc = "done" => parsed # <<>>))

C5_Witness ==
    /\ fn \in SiteChecked /\ pc = "done"
    /\ FirstBoxHasMessage
    /\ result = NotFound /\ parsed = <<>>

(* the section of the estimates page, if there *)
EstimatesSection == soup.h1[1]
EstimatesPresent == soup.h1 # <<>> /\ soup.h1[1].heading[1] = "Schaetzungen"
IsNumberOrDash(x) == x = Dash \/ IsLocalized(x)

ExpectedCell(x) ==
    IF x = Dash THEN None ELSE IF IsLocalized(x) THEN LocalizedValue(x) ELSE None
AllNamed(section) ==
    \A r \in 1..Len(BodyRows(section)) : BodyRows(section)[r].bold # None

(* C7: a value cell that is no number becomes None and nothing else is     *)
(* lost: get_fundamentals still returns the category of a section whose    *)
(* rows all have their name cell, with every row of it, and get_estimates  *)
(* still returns its table.                                                *)
C7_UnparseableIsMissing ==
    /\ (FundamentalsDone /\ result.kind = "return") =>
          \A i \in 1..5 :
              (HeadingPresent(i) /\ AllNamed(TheSection(i))) =>
                  LET got == result.value[FundamentalsSections[i].key]
                  IN  /\ got # None
                      /\ DOMAIN got.v = RowNames(TheSection(i))
                      /\ \A r \in 1..Len(BodyRows(TheSection(i))) :
                            LET row == BodyRows(TheSection(i))[r]
                            IN  \A c \in 1..Min(Len(ValueCells(row)),
                                                Len(ColumnLabels(TheSection(i)))) :
                                    got.v[row.bold.v][ColumnLabels(TheSection(i))[c]]
                                        = ExpectedCell(ValueCells(row)[c])
    /\ (pc = "done" /\ fn = "get_estimates" /\ ~FirstBoxHasMessage /\ EstimatesPresent
            /\ \A r \in 1..Len(BodyRows(EstimatesSection)) :
                  BodyRows(EstimatesSection)[r].tds # <<>>) =>
          /\ result.kind = "return"
          /\ DOMAIN result.value
                = {BodyRows(EstimatesSection)[r].tds[1] :
                      r \in 1..Len(BodyRows(EstimatesSection))}

(* C8: every row mapping in a result of get_fundamentals or get_estimates  *)
(* has one entry per column label of its table, and its row had as many    *)
(* value cells as the table has column labels.                             *)
C8_RowsAligned ==
    /\ (FundamentalsDone /\ result.kind = "return") =>
          \A i \in 1..5 :
              LET got == result.value[FundamentalsSections[i].key]
              IN  (HeadingPresent(i) /\ got # None) =>
                    \A r \in 1..Len(BodyRows(TheSection(i))) :
                        LET row == BodyRows(TheSection(i))[r]
                        IN  (row.bold # None /\ row.bold.v \in DOMAIN got.v) =>
                              /\ DOMAIN got.v[row.bold.v]
                                   = {ColumnLabels(TheSection(i))[c] :
                                         c \in 1..Len(ColumnLabels(TheSection(i)))}
                              /\ Len(ValueCells(row)) = Len(ColumnLabels(TheSection(i)))
    /\ (pc = "done" /\ fn = "get_estimates" /\ result.kind = "return") =>
          \A r \in 1..Len(BodyRows(EstimatesSection)) :
              LET row == BodyRows(EstimatesSection)[r]
              IN  (row.tds # <<>> /\ row.tds[1] \in DOMAIN result.value) =>
                    /\ DOMAIN result.value[row.tds[1]]
                         = {EstimatesSection.ths[c] : c \in 2..Len(EstimatesSection.ths)}
                    /\ Len(row.tds) = Len(EstimatesSection.ths)

(* C10: the ISIN of a record get_fundamentals or get_chart_infos returns   *)
(* is upper-cased and of the ISIN shape (2 letters, 9 alphanumerics, 1     *)
(* digit); it is the ISIN of the argument when the argument holds one, and *)
(* else the one of the og:title content.                                   *)
C10_RecordIsin ==
    (pc = "done" /\ fn \in {"get_fundamentals", "get_chart_infos"}
        /\ result.kind = "return") =>
        LET stored == result.value["ISIN"]
        IN  /\ stored # None
            /\ IsIsin(stored.v)
            /\ IsUpperCased(stored.v)
            /\ IF HoldsIsin(arg)
               THEN stored.v = Upper(FirstIsin(arg))
               ELSE /\ HoldsIsin(TitleContent)
                    /\ stored.v = Upper(FirstIsin(TitleContent))

(* the rows a result of get_fundamentals_lxml should hold: those of the    *)
(* page's sections                                                         *)
RECURSIVE CountBodyRows(_)
CountBodyRows(sections) ==
    IF sections = <<>> THEN 0
    ELSE Len(BodyRows(Head(sections))) + CountBodyRows(Tail(sections))
PageRowNames ==
    UNION {{BodyRows(soup.h2[k])[r].tds[2] : r \in 1..Len(BodyRows(soup.h2[k]))} :
              k \in 1..Len(soup.h2)}

(* C9: the lists bound to the results=[] defaults are never changed, and   *)
(* what a call returns, whatever was called before it, holds rows of the   *)
(* page that call fetched and no others.                                   *)
C9_NoLeakBetweenCalls ==
    /\ \A f \in DOMAIN heap : heap[f] = <<>>
    /\ (pc = "done" /\ result.kind = "return") =>
          /\ fn = "get_estimates_lxml" =>
                /\ Len(result.value.rows) = Len(soup.xrows) - 1
                /\ \A i \in 1..Len(result.value.rows) :
                      soup.xrows[i + 1] # <<>> =>
                          result.value.rows[i][1] = Some(soup.xrows[i + 1][1].v)
          /\ fn = "get_fundamentals_lxml" =>
                /\ Len(result.value) = CountBodyRows(soup.h2)
                /\ \A i \in 1..Len(result.value) :
                      result.value[i].cells[1].v \in PageRowNames
          /\ fn = "search_stock_lxml" =>
                /\ Len(result.value) <= Len(soup.srows) - 1
                /\ \A i \in 1..Len(result.value) :
                      /\ result.value[i][1] = soup.srows[i + 1].a
                      /\ result.value[i][3] = soup.srows[i + 1].tds[2]
          /\ fn = "get_estimates" =>
                DOMAIN result.value
                    \subseteq {BodyRows(EstimatesSection)[r].tds[1] :
                                  r \in 1..Len(BodyRows(EstimatesSection))}
          /\ fn = "get_fundamentals" =>
                \A i \in 1..5 :
                    result.value[FundamentalsSections[i].key] # None =>
                        DOMAIN result.value[FundamentalsSections[i].key].v
                            \subseteq RowNames(TheSection(i))

C9_Witness ==
    /\ calls >= 1
    /\ pc = "done" /\ fn = "get_estimates_lxml"
    /\ result.kind = "return"
    /\ Len(result.value.rows) = 2
    /\ result.value.rows[1][1] = Some(NameA)
    /\ heap["get_estimates_lxml"] = <<>>

(* the one value cell of the page of the normalisation specification, and  *)
(* what the result holds for it                                            *)
TheCell ==
    IF fn = "get_fundamentals" THEN ValueCells(BodyRows(soup.h2[1])[1])[1]
    ELSE DropFirst(BodyRows(soup.h1[1])[1].tds, 1)[1]
TheRows == IF fn = "get_fundamentals" THEN result.value["Quotes"].v ELSE result.value

(* C6: a cell in the localized format becomes the number it denotes,       *)
(* stored under the cell's column label, and the cell "-" becomes None, in  *)
(* get_fundamentals and in get_estimates.                                  *)
C6_LocalizedNumbers ==
    (pc = "done" /\ fn \in {"get_fundamentals", "get_estimates"}
        /\ IsNumberOrDash(TheCell)) =>
        /\ result.kind = "return"
        /\ (fn = "get_fundamentals" => result.value["Quotes"] # None)
        /\ DOMAIN TheRows = {NameA}
        /\ DOMAIN TheRows[NameA] = {"2023"}
        /\ TheRows[NameA]["2023"] =
              IF TheCell = Dash THEN None ELSE LocalizedValue(TheCell)

C6_Witness ==
    /\ pc = "done" /\ fn \in {"get_fundamentals", "get_estimates"}
    /\ TheCell = <<"1",".","2","3","4",",","5","6">>
    /\ result.kind = "return"
    /\ TheRows[NameA]["2023"] = [m |-> 123456, e |-> 2]

(* C1: parse_for_isin returns the leftmost substring of 2 letters, 9       *)
(* alphanumerics and 1 digit, as it stands in the input, and None when the *)
(* input has no such substring.                                            *)
C1_FirstIsinShapedSubstring ==
    (pc = "done" /\ fn = "parse_for_isin") =>
        result = Returned(IF HoldsIsin(arg) THEN Some(FirstIsin(arg)) ELSE None)

(* C2: for an argument that is an ISIN (2 letters, 9 alphanumerics, 1      *)
(* digit) get_fundamentals and get_chart_infos fetch the search endpoint   *)
(* plus the lower-cased argument; for an argument that holds no ISIN they  *)
(* fetch their own endpoint plus the lower-cased argument.                 *)
C2_IsinGoesToSearchEndpoint ==
    (pc # "idle" /\ fn \in {"get_fundamentals", "get_chart_infos"}) =>
        /\ IsIsin(arg) => url = <<SearchEndpoint>> \o Lower(arg)
        /\ ~HoldsIsin(arg) =>
              url = <<IF fn = "get_fundamentals" THEN FundamentalsEndpoint
                      ELSE ChartEndpoint>> \o Lower(arg)

====
